---------------------------- MODULE Spec2Model ----------------------------
(***************************************************************************)
(* Model of labels/label_generator.py: the label text normaliser, the      *)
(* filename sanitiser, the section path resolver, the Cullenect layout     *)
(* renderer, the batch expander and the batch generator that drives the    *)
(* external renderer (gflabel).                                            *)
(*                                                                         *)
(* A Python str is a sequence of characters; a character is a one-element  *)
(* TLA+ string.  The two non-ASCII characters the program uses are written *)
(* by code point: "U+00D7" is the multiplication sign and "U+2044" the     *)
(* fraction slash.  An Optional[str] is a sequence of length 0 (None) or 1 *)
(* (the string).                                                           *)
(***************************************************************************)
EXTENDS Naturals, Sequences, FiniteSets

(***************************************************************************)
(* Bounds of the model.                                                    *)
(***************************************************************************)
MaxItems == 2       \* batch requests in one call of make

MaxStemLen == 5     \* characters of a string handed to _safe_stem

MaxNormLen == 5     \* characters of a text handed to normalize_label_text

MaxExtraLen == 4    \* characters of a nut's or washer's extra line

(***************************************************************************)
(* Characters and the str methods the program uses.                        *)
(***************************************************************************)
MULT == "U+00D7"

FRACTION_SLASH == "U+2044"

QUOTE == "\""

NEWLINE == "\n"

Upper == <<"A","B","C","D","E","F","G","H","I","J","K","L","M",
           "N","O","P","Q","R","S","T","U","V","W","X","Y","Z">>

Lowercase == <<"a","b","c","d","e","f","g","h","i","j","k","l","m",
               "n","o","p","q","r","s","t","u","v","w","x","y","z">>

Digits == {"0","1","2","3","4","5","6","7","8","9"}

Whitespace == {" ", "\t", "\n", "\r", "\f"}

Range(f) == {f[i] : i \in DOMAIN f}

\* the characters the pattern [A-Za-z0-9._-] accepts
SafeChars == Range(Upper) \cup Range(Lowercase) \cup Digits \cup {".", "_", "-"}

\* str.lower(), one character
LowerChar(c) ==
    IF c \in Range(Upper)
    THEN Lowercase[CHOOSE i \in DOMAIN Upper : Upper[i] = c]
    ELSE c

\* str.lower()
Lower(s) == [i \in DOMAIN s |-> LowerChar(s[i])]

\* str.replace(old, new) for a one-character old; new is a (possibly empty) str
RECURSIVE Replace(_, _, _)
Replace(s, old, new) ==
    IF s = <<>> THEN <<>>
    ELSE (IF Head(s) = old THEN new ELSE <<Head(s)>>) \o Replace(Tail(s), old, new)

\* s without its longest prefix of characters of cs
RECURSIVE LStrip(_, _)
LStrip(s, cs) ==
    IF s # <<>> /\ Head(s) \in cs THEN LStrip(Tail(s), cs) ELSE s

\* s without its longest suffix of characters of cs
RECURSIVE RStrip(_, _)
RStrip(s, cs) ==
    IF s # <<>> /\ s[Len(s)] \in cs THEN RStrip(SubSeq(s, 1, Len(s) - 1), cs) ELSE s

\* str.strip() (cs = Whitespace) and str.strip(chars)
Strip(s, cs) == RStrip(LStrip(s, cs), cs)

\* sep.join(parts)
RECURSIVE Join(_, _)
Join(parts, sep) ==
    IF parts = <<>> THEN <<>>
    ELSE IF Len(parts) = 1 THEN parts[1]
    ELSE parts[1] \o sep \o Join(Tail(parts), sep)

\* re.sub(r"[cs]+", rep, s): every maximal run of characters of cs becomes rep
RECURSIVE SubRuns(_, _, _)
SubRuns(s, cs, rep) ==
    IF s = <<>> THEN <<>>
    ELSE IF Head(s) \in cs THEN rep \o SubRuns(LStrip(s, cs), cs, rep)
    ELSE <<Head(s)>> \o SubRuns(Tail(s), cs, rep)

\* s without its longest prefix of characters outside keep
RECURSIVE LStripNot(_, _)
LStripNot(s, keep) ==
    IF s # <<>> /\ Head(s) \notin keep THEN LStripNot(Tail(s), keep) ELSE s

\* re.sub(r"[^keep]+", rep, s): every maximal run of characters outside keep
\* becomes rep
RECURSIVE SubRunsNot(_, _, _)
SubRunsNot(s, keep, rep) ==
    IF s = <<>> THEN <<>>
    ELSE IF Head(s) \notin keep THEN rep \o SubRunsNot(LStripNot(s, keep), keep, rep)
    ELSE <<Head(s)>> \o SubRunsNot(Tail(s), keep, rep)

(***************************************************************************)
(* Text normalization for labels.                                          *)
(***************************************************************************)
\* last index of the maximal run of digits that starts at i (i - 1: none)
RECURSIVE DigitRunEnd(_, _)
DigitRunEnd(s, i) ==
    IF i <= Len(s) /\ s[i] \in Digits THEN DigitRunEnd(s, i + 1) ELSE i - 1

\* first index from i on that holds no whitespace (Len(s) + 1: none)
RECURSIVE SkipSpace(_, _)
SkipSpace(s, i) ==
    IF i <= Len(s) /\ s[i] \in Whitespace THEN SkipSpace(s, i + 1) ELSE i

\* _fraction_pattern matched at index i: [l1, l2] is group 1, [r1, r2] group 2,
\* the match ends at r2; ok is FALSE when the pattern does not match at i.
\* Every quantifier is greedy and a shorter choice never matches: the
\* character after a shortened run is a digit (or a whitespace), which
\* neither \s*, "/" nor the lookahead (?!\d) accepts.
FractionMatch(s, i) ==
    LET l2 == DigitRunEnd(s, i)
        p  == SkipSpace(s, l2 + 1)
        r1 == SkipSpace(s, p + 1)
        r2 == DigitRunEnd(s, r1)
    IN  [ok |-> /\ ~(i > 1 /\ s[i - 1] \in Digits)
                /\ l2 >= i
                /\ p <= Len(s) /\ s[p] = "/"
                /\ r2 >= r1,
         l1 |-> i, l2 |-> l2, r1 |-> r1, r2 |-> r2]

\* _fraction_pattern.sub(r"\1 FRACTION_SLASH \2", s) from index i on: the
\* matches are found left to right and do not overlap
RECURSIVE FractionSub(_, _)
FractionSub(s, i) ==
    IF i > Len(s) THEN <<>>
    ELSE LET m == FractionMatch(s, i)
         IN  IF m.ok
             THEN SubSeq(s, m.l1, m.l2) \o <<" ", FRACTION_SLASH, " ">>
                    \o SubSeq(s, m.r1, m.r2) \o FractionSub(s, m.r2 + 1)
             ELSE <<s[i]>> \o FractionSub(s, i + 1)

normalize_label_text(text) == FractionSub(text, 1)

(***************************************************************************)
(* Helpers.                                                                *)
(***************************************************************************)
LABEL == <<"l","a","b","e","l">>

\* _safe_stem stripping the underscores before the unsafe characters are
\* replaced
_safe_stem_strip_first(s) ==
    LET s1 == Strip(Replace(Strip(s, Whitespace), MULT, <<"x">>), {"_"})
        s2 == SubRunsNot(s1, SafeChars, <<"_">>)
        s3 == SubRuns(s2, {"_"}, <<"_">>)
    IN  IF s3 = <<>> THEN LABEL ELSE s3

\* _safe_stem without the final strip("_")
_safe_stem_no_strip(s) ==
    LET s1 == Replace(Strip(s, Whitespace), MULT, <<"x">>)
        s2 == SubRunsNot(s1, SafeChars, <<"_">>)
        s3 == SubRuns(s2, {"_"}, <<"_">>)
    IN  IF s3 = <<>> THEN LABEL ELSE s3

_safe_stem(s) ==
    LET s1 == Replace(Strip(s, Whitespace), MULT, <<"x">>)
        s2 == SubRunsNot(s1, SafeChars, <<"_">>)
        s3 == SubRuns(s2, {"_"}, <<"_">>)
        s4 == Strip(s3, {"_"})
    IN  IF s4 = <<>> THEN LABEL ELSE s4

_norm_size_for_folder(size) ==
    SubRuns(Replace(Lower(Strip(size, Whitespace)), "#", <<>>), Whitespace, <<>>)

\* pathlib.PurePosixPath: root is "" (a relative path), "/" or "//" (a str
\* that starts with exactly two slashes keeps both), parts are the components
Path(parts) == [root |-> "", parts |-> parts]

\* s.split("/")
RECURSIVE Split(_)
Split(s) ==
    IF \A i \in DOMAIN s : s[i] # "/" THEN <<s>>
    ELSE LET k == CHOOSE i \in DOMAIN s : s[i] = "/" /\ \A j \in 1..(i - 1) : s[j] # "/"
         IN  <<SubSeq(s, 1, k - 1)>> \o Split(SubSeq(s, k + 1, Len(s)))

\* the components pathlib keeps of a str: empty ones and "." are dropped
PathParts(s) == SelectSeq(Split(s), LAMBDA c : c # <<>> /\ c # <<".">>)

\* the root of a str that starts with "/"
RootOf(s) ==
    IF Len(s) >= 2 /\ s[2] = "/" /\ ~(Len(s) >= 3 /\ s[3] = "/") THEN "//" ELSE "/"

\* p / s: a str that starts with "/" replaces p
PathJoin(p, s) ==
    IF s # <<>> /\ s[1] = "/"
    THEN [root |-> RootOf(s), parts |-> PathParts(s)]
    ELSE [root |-> p.root, parts |-> p.parts \o PathParts(s)]

\* p.parent
Parent(p) ==
    IF p.parts = <<>> THEN p
    ELSE [root |-> p.root, parts |-> SubSeq(p.parts, 1, Len(p.parts) - 1)]

\* the directories p.mkdir(parents=True, exist_ok=True) makes sure exist
WithParents(p) ==
    {[root |-> p.root, parts |-> SubSeq(p.parts, 1, k)] : k \in 1..Len(p.parts)}

BOLTS_SUFFIX == <<"_","b","o","l","t","s">>

NUTS_SUFFIX == <<"_","n","u","t","s">>

WASHERS_SUFFIX == <<"_","w","a","s","h","e","r","s">>

LOCKWASHERS_SUFFIX == <<"_","l","o","c","k","w","a","s","h","e","r","s">>

MISC == <<"m","i","s","c">>

default_section_dir(base_out, kind, size, lock) ==
    LET s == _norm_size_for_folder(size)
    IN  IF kind = "bolt" THEN PathJoin(base_out, s \o BOLTS_SUFFIX)
        ELSE IF kind = "nut" THEN PathJoin(base_out, s \o NUTS_SUFFIX)
        ELSE IF kind = "washer"
             THEN PathJoin(base_out, s \o (IF lock THEN LOCKWASHERS_SUFFIX
                                                   ELSE WASHERS_SUFFIX))
        ELSE PathJoin(base_out, MISC)

(***************************************************************************)
(* Low-level specs (rendered 1:1) and high-level batch requests.           *)
(***************************************************************************)
None == <<>>

Some(s) == <<s>>

\* the truth value Python gives an Optional[str]: None and "" are false
Truthy(opt) == opt # None /\ opt[1] # <<>>

BoltSpec(size, length, head_style, drive, tapping, partial_thread, grade_or_material) ==
    [size |-> size, length |-> length, head_style |-> head_style, drive |-> drive,
     tapping |-> tapping, partial_thread |-> partial_thread,
     grade_or_material |-> grade_or_material]

NutSpec(size, extra) == [size |-> size, extra |-> extra]

WasherSpec(size, extra, lock) == [size |-> size, extra |-> extra, lock |-> lock]

Bolts(bolt_type, size, lengths, tapping, partial_thread, grade_or_material) ==
    [type |-> "Bolts", bolt_type |-> bolt_type, size |-> size, lengths |-> lengths,
     tapping |-> tapping, partial_thread |-> partial_thread,
     grade_or_material |-> grade_or_material]

Nuts(size, extras) == [type |-> "Nuts", size |-> size, extras |-> extras]

Washers(size, extras, lock) ==
    [type |-> "Washers", size |-> size, extras |-> extras, lock |-> lock]

(***************************************************************************)
(* Layout renderer.                                                        *)
(***************************************************************************)
base == <<"c","u","l","l","e","n","e","c","t">>

FLIPPED == <<"f","l","i","p","p","e","d">>

TAPPING == <<"t","a","p","p","i","n","g">>

PARTIAL == <<"p","a","r","t","i","a","l">>

CULLBOLT_OPEN == <<"{","c","u","l","l","b","o","l","t","(">>

ONE_ONE == <<"{","1","|","1","}">>

ONE_TWO == <<"{","1","|","2","}">>

LEFT_ALIGN == <<"{","<","}">>

NUT_ICON == <<"{","n","u","t","}">>

WASHER_ICON == <<"{","w","a","s","h","e","r","}">>

LOCKWASHER_ICON == <<"{","l","o","c","k","w","a","s","h","e","r","}">>

NUT == <<"n","u","t">>

WASHER == <<"w","a","s","h","e","r">>

LOCKWASHER == <<"l","o","c","k","w","a","s","h","e","r">>

bolt_label(b) ==
    LET args == <<FLIPPED>>
                \o (IF b.tapping THEN <<TAPPING>> ELSE <<>>)
                \o (IF b.partial_thread THEN <<PARTIAL>> ELSE <<>>)
                \o <<b.head_style, b.drive>>
        icon == CULLBOLT_OPEN \o Join(args, <<",">>) \o <<")", "}">>
        top0 == normalize_label_text(b.size)
        top  == IF Truthy(b.grade_or_material)
                THEN normalize_label_text(top0 \o <<" ">> \o b.grade_or_material[1])
                ELSE top0
        length_text == normalize_label_text(b.length)
    IN  icon \o ONE_ONE \o top \o <<NEWLINE, MULT>> \o length_text

nut_label(n) ==
    LEFT_ALIGN \o NUT_ICON \o ONE_TWO \o normalize_label_text(n.size)
        \o <<NEWLINE>> \o normalize_label_text(n.extra)

washer_label(w) ==
    LEFT_ALIGN \o (IF w.lock THEN LOCKWASHER_ICON ELSE WASHER_ICON) \o ONE_TWO
        \o normalize_label_text(w.size) \o <<NEWLINE>> \o normalize_label_text(w.extra)

bolt_filename(b, e) ==
    LET size   == Replace(Replace(Lower(b.size), "#", <<>>), "-", <<"_">>)
        length == Replace(Replace(Replace(b.length, "/", <<"_">>), QUOTE, <<>>),
                          ".", <<"p">>)
        stem   == size \o <<"x">> \o length \o <<"_">> \o b.head_style
                    \o <<"_">> \o b.drive
                    \o (IF b.tapping THEN <<"_">> \o TAPPING ELSE <<>>)
                    \o (IF b.partial_thread THEN <<"_">> \o PARTIAL ELSE <<>>)
                    \o (IF Truthy(b.grade_or_material)
                        THEN <<"_">> \o Lower(b.grade_or_material[1]) ELSE <<>>)
    IN  _safe_stem(stem) \o e

nut_filename(n, e) ==
    LET stem == Replace(Lower(n.size), "#", <<>>) \o <<"_">> \o NUT
                  \o (IF n.extra # <<>> THEN <<"_">> \o Lower(n.extra) ELSE <<>>)
    IN  _safe_stem(stem) \o e

\* washer_filename treating the extra the way bolt_filename treats the length
washer_filename_like_length(w, e) ==
    LET extra == Replace(Replace(Replace(w.extra, "/", <<"_">>), QUOTE, <<>>),
                         ".", <<"p">>)
        stem  == Replace(Lower(w.size), "#", <<>>) \o <<"_">>
                   \o (IF w.lock THEN LOCKWASHER ELSE WASHER)
                   \o (IF w.extra # <<>> THEN <<"_">> \o Lower(extra) ELSE <<>>)
    IN  _safe_stem(stem) \o e

washer_filename(w, e) ==
    LET stem == Replace(Lower(w.size), "#", <<>>) \o <<"_">>
                  \o (IF w.lock THEN LOCKWASHER ELSE WASHER)
                  \o (IF w.extra # <<>> THEN <<"_">> \o Lower(w.extra) ELSE <<>>)
    IN  _safe_stem(stem) \o e

(***************************************************************************)
(* Bolt type registry.                                                     *)
(***************************************************************************)
SOCKET == <<"s","o","c","k","e","t">>

PAN == <<"p","a","n">>

COUNTERSUNK == <<"c","o","u","n","t","e","r","s","u","n","k">>

HEX == <<"h","e","x">>

PHILLIPS == <<"p","h","i","l","l","i","p","s">>

TORX == <<"t","o","r","x">>

BOLT_TYPES ==
    [bt \in {"socket_hex", "pan_phillips", "pan_torx", "csk_hex", "csk_torx",
             "csk_phillips"} |->
        CASE bt = "socket_hex"   -> [head_style |-> SOCKET, drive |-> HEX]
          [] bt = "pan_phillips" -> [head_style |-> PAN, drive |-> PHILLIPS]
          [] bt = "pan_torx"     -> [head_style |-> PAN, drive |-> TORX]
          [] bt = "csk_hex"      -> [head_style |-> COUNTERSUNK, drive |-> HEX]
          [] bt = "csk_torx"     -> [head_style |-> COUNTERSUNK, drive |-> TORX]
          [] bt = "csk_phillips" -> [head_style |-> COUNTERSUNK, drive |-> PHILLIPS]]

(***************************************************************************)
(* Batch generator: the fields __init__ sets by default, and expand.       *)
(***************************************************************************)
out_dir == Path(<< <<"l","a","b","e","l","s","_","o","u","t">> >>)

ext == <<".","s","t","e","p">>

Job(label, out) == [label |-> label, out |-> out]

\* the jobs of one Bolts item whose bolt_type is in the registry
BoltJobs(item) ==
    LET bt == BOLT_TYPES[item.bolt_type]
    IN  [j \in 1..Len(item.lengths) |->
            LET spec == BoltSpec(item.size, item.lengths[j], bt.head_style, bt.drive,
                                 item.tapping, item.partial_thread,
                                 item.grade_or_material)
                section == default_section_dir(out_dir, "bolt", spec.size, FALSE)
            IN  Job(bolt_label(spec), PathJoin(section, bolt_filename(spec, ext)))]

NutJobs(item) ==
    [j \in 1..Len(item.extras) |->
        LET spec == NutSpec(item.size, item.extras[j])
            section == default_section_dir(out_dir, "nut", spec.size, FALSE)
        IN  Job(nut_label(spec), PathJoin(section, nut_filename(spec, ext)))]

WasherJobs(item) ==
    [j \in 1..Len(item.extras) |->
        LET spec == WasherSpec(item.size, item.extras[j], item.lock)
            section == default_section_dir(out_dir, "washer", spec.size, spec.lock)
        IN  Job(washer_label(spec), PathJoin(section, washer_filename(spec, ext)))]

\* ExpandItem with the registry looked up per length, inside the inner loop:
\* a Bolts item without lengths is never checked
ExpandItemLazyCheck(item) ==
    IF item.type = "Bolts"
    THEN IF item.lengths = <<>> THEN [error |-> "None", jobs |-> <<>>]
         ELSE IF item.bolt_type \notin DOMAIN BOLT_TYPES
         THEN [error |-> "ValueError", jobs |-> <<>>]
         ELSE [error |-> "None", jobs |-> BoltJobs(item)]
    ELSE IF item.type = "Nuts" THEN [error |-> "None", jobs |-> NutJobs(item)]
    ELSE IF item.type = "Washers" THEN [error |-> "None", jobs |-> WasherJobs(item)]
    ELSE [error |-> "TypeError", jobs |-> <<>>]

\* one round of the loop of expand: the jobs the item adds, or the exception
ExpandItem(item) ==
    IF item.type = "Bolts"
    THEN IF item.bolt_type \notin DOMAIN BOLT_TYPES
         THEN [error |-> "ValueError", jobs |-> <<>>]
         ELSE [error |-> "None", jobs |-> BoltJobs(item)]
    ELSE IF item.type = "Nuts" THEN [error |-> "None", jobs |-> NutJobs(item)]
    ELSE IF item.type = "Washers" THEN [error |-> "None", jobs |-> WasherJobs(item)]
    ELSE [error |-> "TypeError", jobs |-> <<>>]

\* ExpandLoop putting an item's jobs in front of the list instead of after it
RECURSIVE ExpandLoopPrepend(_, _)
ExpandLoopPrepend(rest, acc) ==
    IF rest = <<>> THEN [error |-> "None", jobs |-> acc]
    ELSE LET r == ExpandItem(Head(rest))
         IN  IF r.error # "None" THEN [error |-> r.error, jobs |-> <<>>]
             ELSE ExpandLoopPrepend(Tail(rest), r.jobs \o acc)

\* the loop of expand over the items left, acc being the list built so far;
\* an exception leaves the caller without any of it
RECURSIVE ExpandLoop(_, _)
ExpandLoop(rest, acc) ==
    IF rest = <<>> THEN [error |-> "None", jobs |-> acc]
    ELSE LET r == ExpandItem(Head(rest))
         IN  IF r.error # "None" THEN [error |-> r.error, jobs |-> <<>>]
             ELSE ExpandLoop(Tail(rest), acc \o r.jobs)

expand(its) == ExpandLoop(its, <<>>)

(***************************************************************************)
(* State.  A call gen.make(items) with the default generator:              *)
(*   items    the argument of make                                         *)
(*   pc       "start", "loop" (between two jobs), "invoking" (gflabel is   *)
(*            running), "returned" or "raised"                             *)
(*   jobs     what expand returned                                         *)
(*   outputs  the local list of make                                       *)
(*   calls    the gflabel processes started so far, in order               *)
(*   exits    how each of them ended: "ok" (exit status 0) or "fail"       *)
(*   files    the output files that exist                                  *)
(*   dirs     the directories run_gflabel created                          *)
(*   error    the exception make raised, "None" if none                    *)
(*   returned, result   whether make returned, and the list it returned    *)
(* and one application of a pure function of the module:                   *)
(*   kind     which one: "stem", "norm", "bolt", "nut", "washer" ("none"   *)
(*            in a run of make)                                            *)
(*   arg      its argument: a str, a BoltSpec, a NutSpec or a WasherSpec   *)
(*   ran      the applications made                                        *)
(*   stem, stem2   _safe_stem(arg) and _safe_stem(stem)                    *)
(*   norm     normalize_label_text(arg)                                    *)
(*   label    the layout's label for arg                                   *)
(*   fname, fext   the layout's filename for arg, and the ext it was given *)
(***************************************************************************)
VARIABLES items, pc, jobs, outputs, calls, exits, files, dirs, error,
          returned, result,
          kind, arg, ran, stem, stem2, norm, label, fname, fext

makeVars == <<items, pc, jobs, outputs, calls, exits, files, dirs, error,
              returned, result>>

pureVars == <<kind, arg, ran, stem, stem2, norm, label, fname, fext>>

vars == <<makeVars, pureVars>>

\* all str of at most n characters of A
StrsUpTo(A, n) == UNION {[1..k -> A] : k \in 0..n}

\* all lists of at most n elements of S
ListsUpTo(S, n) == UNION {[1..k -> S] : k \in 0..n}

(***************************************************************************)
(* The batch requests a run of make draws its items from.                  *)
(***************************************************************************)
M3 == <<"M","3">>

M5 == <<"M","5">>

NO4_40 == <<"#","4","-","4","0">>

BoltItems ==
    {Bolts(bt, M3, << <<"8">>, <<"1","0">> >>, FALSE, FALSE, None) :
        bt \in DOMAIN BOLT_TYPES \cup {"no_such_type"}}
    \cup {Bolts("no_such_type", M3, <<>>, FALSE, FALSE, None),
          Bolts("socket_hex", M3, <<>>, FALSE, FALSE, None),
          Bolts("pan_phillips", NO4_40, << <<"5","/","1","6",QUOTE>> >>, TRUE, TRUE,
                Some(<<"A","2">>))}

NutItems == {Nuts(M5, << <<>>, <<"N","Y","L","O","N">> >>)}

WasherItems ==
    {Washers(M5, << <<"i","d"," ","5","/","1","6">> >>, FALSE),
     Washers(M5, << <<>> >>, TRUE)}

\* a value that is no Bolts, Nuts or Washers (a NutSpec handed in by mistake)
OtherItems == {[type |-> "NutSpec", size |-> M5, extra |-> <<>>]}

ItemPool == BoltItems \cup NutItems \cup WasherItems \cup OtherItems

PureIdle ==
    /\ kind = "none" /\ arg = <<>> /\ ran = {}
    /\ stem = <<>> /\ stem2 = <<>> /\ norm = <<>>
    /\ label = <<>> /\ fname = <<>> /\ fext = <<>>

Init ==
    /\ items \in ListsUpTo(ItemPool, MaxItems)
    /\ pc = "start"
    /\ jobs = <<>> /\ outputs = <<>> /\ calls = <<>> /\ exits = <<>>
    /\ files = {} /\ dirs = {}
    /\ error = "None" /\ returned = FALSE /\ result = <<>>
    /\ PureIdle

(***************************************************************************)
(* make.  The loop body is run_gflabel, which blocks in subprocess.run     *)
(* until the renderer exits; the renderer's exit status is the             *)
(* environment's choice.                                                   *)
(***************************************************************************)
\* `for label, out in self.expand(items)`: expand runs to its end first
make_expand ==
    /\ pc = "start"
    /\ LET r == expand(items)
       IN  IF r.error = "None"
           THEN /\ jobs' = r.jobs
                /\ pc' = "loop"
                /\ error' = error
           ELSE /\ jobs' = jobs
                /\ pc' = "raised"
                /\ error' = r.error
    /\ UNCHANGED <<items, outputs, calls, exits, files, dirs, returned, result>>
    /\ UNCHANGED pureVars

\* NextJob walking the jobs from the last one down
NextJobReversed == jobs[Len(jobs) - Len(outputs)]

\* the job the loop of make is at
NextJob == jobs[Len(outputs) + 1]

\* run_gflabel up to the start of the renderer: the parent directory, then
\* the command line
run_gflabel_start ==
    /\ pc = "loop"
    /\ Len(outputs) < Len(jobs)
    /\ dirs' = dirs \cup WithParents(Parent(NextJob.out))
    /\ calls' = Append(calls, [base |-> base, label |-> NextJob.label,
                               output |-> NextJob.out])
    /\ pc' = "invoking"
    /\ UNCHANGED <<items, jobs, outputs, exits, files, error, returned, result>>
    /\ UNCHANGED pureVars

\* output.parent.mkdir raises (a filesystem error): make raises with it
run_gflabel_mkdir_fails ==
    /\ pc = "loop"
    /\ Len(outputs) < Len(jobs)
    /\ pc' = "raised"
    /\ error' = "OSError"
    /\ UNCHANGED <<items, jobs, outputs, calls, exits, files, dirs, returned, result>>
    /\ UNCHANGED pureVars

\* the renderer exits with status 0: its output file exists, run_gflabel
\* returns and make appends the path
run_gflabel_ok ==
    /\ pc = "invoking"
    /\ files' = files \cup {calls[Len(calls)].output}
    /\ exits' = Append(exits, "ok")
    /\ outputs' = Append(outputs, calls[Len(calls)].output)
    /\ pc' = "loop"
    /\ UNCHANGED <<items, jobs, calls, dirs, error, returned, result>>
    /\ UNCHANGED pureVars

\* run_gflabel_fails without check=True: the exit status is ignored, run_gflabel
\* returns and make goes on
run_gflabel_fails_unchecked ==
    /\ pc = "invoking"
    /\ \E written \in BOOLEAN :
          files' = IF written THEN files \cup {calls[Len(calls)].output} ELSE files
    /\ exits' = Append(exits, "fail")
    /\ outputs' = Append(outputs, calls[Len(calls)].output)
    /\ pc' = "loop"
    /\ UNCHANGED <<items, jobs, calls, dirs, error, returned, result>>
    /\ UNCHANGED pureVars

\* the renderer exits with another status (having written its file or
\* not): check=True raises CalledProcessError, which make lets through
run_gflabel_fails ==
    /\ pc = "invoking"
    /\ \E written \in BOOLEAN :
          files' = IF written THEN files \cup {calls[Len(calls)].output} ELSE files
    /\ exits' = Append(exits, "fail")
    /\ pc' = "raised"
    /\ error' = "CalledProcessError"
    /\ UNCHANGED <<items, jobs, outputs, calls, dirs, returned, result>>
    /\ UNCHANGED pureVars

\* the loop is over: return outputs
make_return ==
    /\ pc = "loop"
    /\ Len(outputs) = Len(jobs)
    /\ returned' = TRUE
    /\ result' = outputs
    /\ pc' = "returned"
    /\ UNCHANGED <<items, jobs, outputs, calls, exits, files, dirs, error>>
    /\ UNCHANGED pureVars

Next ==
    \/ make_expand
    \/ run_gflabel_start
    \/ run_gflabel_mkdir_fails
    \/ run_gflabel_ok
    \/ run_gflabel_fails
    \/ make_return

Spec == Init /\ [][Next]_vars

(***************************************************************************)
(* One application of a pure function: the arguments it is given.          *)
(***************************************************************************)
StemArgs == StrsUpTo({" ", MULT, "#", "_", "a", "."}, MaxStemLen)

NormArgs == StrsUpTo({"1", "2", "/", " ", "a"}, MaxNormLen)

BoltSizes == {M3, NO4_40, <<"1">>, <<"1","/","4">>}

BoltLengths == {<<"8">>, <<"5","/","1","6",QUOTE>>, <<"0",".","5">>,
                <<"8","M","M">>, <<>>}

Grades == {None, Some(<<>>), Some(<<"A","2">>), Some(<<"/","2">>),
           Some(<<"1","2",".","9">>)}

BoltArgs ==
    {BoltSpec(sz, ln, bt.head_style, bt.drive, t, pt, g) :
        sz \in BoltSizes, ln \in BoltLengths,
        bt \in {BOLT_TYPES["socket_hex"], BOLT_TYPES["pan_phillips"]},
        t \in BOOLEAN, pt \in BOOLEAN, g \in Grades}

Extras == StrsUpTo({"1", "/", ".", "A", " "}, MaxExtraLen)

NutArgs == {NutSpec(sz, e) : sz \in {M5, <<"#","8">>}, e \in Extras}

WasherArgs == {WasherSpec(sz, e, l) : sz \in {M5, <<"#","8">>}, e \in Extras,
                                      l \in BOOLEAN}

Exts == {ext, <<".","s","t","l">>}

MakeIdle ==
    /\ items = <<>> /\ pc = "none"
    /\ jobs = <<>> /\ outputs = <<>> /\ calls = <<>> /\ exits = <<>>
    /\ files = {} /\ dirs = {}
    /\ error = "None" /\ returned = FALSE /\ result = <<>>

InitPure ==
    /\ MakeIdle
    /\ \/ kind = "stem" /\ arg \in StemArgs
       \/ kind = "norm" /\ arg \in NormArgs
       \/ kind = "bolt" /\ arg \in BoltArgs
       \/ kind = "nut" /\ arg \in NutArgs
       \/ kind = "washer" /\ arg \in WasherArgs
    /\ ran = {}
    /\ stem = <<>> /\ stem2 = <<>> /\ norm = <<>>
    /\ label = <<>> /\ fname = <<>> /\ fext = <<>>

call_safe_stem ==
    /\ kind = "stem" /\ "stem" \notin ran
    /\ stem' = _safe_stem(arg)
    /\ ran' = ran \cup {"stem"}
    /\ UNCHANGED <<kind, arg, stem2, norm, label, fname, fext>>
    /\ UNCHANGED makeVars

\* _safe_stem applied to its own result
call_safe_stem_again ==
    /\ kind = "stem" /\ "stem" \in ran /\ "stem2" \notin ran
    /\ stem2' = _safe_stem(stem)
    /\ ran' = ran \cup {"stem2"}
    /\ UNCHANGED <<kind, arg, stem, norm, label, fname, fext>>
    /\ UNCHANGED makeVars

call_normalize_label_text ==
    /\ kind = "norm" /\ "norm" \notin ran
    /\ norm' = normalize_label_text(arg)
    /\ ran' = ran \cup {"norm"}
    /\ UNCHANGED <<kind, arg, stem, stem2, label, fname, fext>>
    /\ UNCHANGED makeVars

call_bolt_label ==
    /\ kind = "bolt" /\ "label" \notin ran
    /\ label' = bolt_label(arg)
    /\ ran' = ran \cup {"label"}
    /\ UNCHANGED <<kind, arg, stem, stem2, norm, fname, fext>>
    /\ UNCHANGED makeVars

call_bolt_filename ==
    /\ kind = "bolt" /\ "fname" \notin ran
    /\ \E e \in Exts : fext' = e /\ fname' = bolt_filename(arg, e)
    /\ ran' = ran \cup {"fname"}
    /\ UNCHANGED <<kind, arg, stem, stem2, norm, label>>
    /\ UNCHANGED makeVars

call_nut_label ==
    /\ kind = "nut" /\ "label" \notin ran
    /\ label' = nut_label(arg)
    /\ ran' = ran \cup {"label"}
    /\ UNCHANGED <<kind, arg, stem, stem2, norm, fname, fext>>
    /\ UNCHANGED makeVars

call_nut_filename ==
    /\ kind = "nut" /\ "fname" \notin ran
    /\ \E e \in Exts : fext' = e /\ fname' = nut_filename(arg, e)
    /\ ran' = ran \cup {"fname"}
    /\ UNCHANGED <<kind, arg, stem, stem2, norm, label>>
    /\ UNCHANGED makeVars

call_washer_label ==
    /\ kind = "washer" /\ "label" \notin ran
    /\ label' = washer_label(arg)
    /\ ran' = ran \cup {"label"}
    /\ UNCHANGED <<kind, arg, stem, stem2, norm, fname, fext>>
    /\ UNCHANGED makeVars

call_washer_filename ==
    /\ kind = "washer" /\ "fname" \notin ran
    /\ \E e \in Exts : fext' = e /\ fname' = washer_filename(arg, e)
    /\ ran' = ran \cup {"fname"}
    /\ UNCHANGED <<kind, arg, stem, stem2, norm, label>>
    /\ UNCHANGED makeVars

NextPure ==
    \/ call_safe_stem
    \/ call_safe_stem_again
    \/ call_normalize_label_text
    \/ call_bolt_label
    \/ call_bolt_filename
    \/ call_nut_label
    \/ call_nut_filename
    \/ call_washer_label
    \/ call_washer_filename

SpecPure == InitPure /\ [][NextPure]_vars

(***************************************************************************)
(* Properties of make and expand, stated for Spec.                         *)
(***************************************************************************)
\* the number of jobs the batch expander is to produce for one valid request
Count(item) == IF item.type = "Bolts" THEN Len(item.lengths) ELSE Len(item.extras)

RECURSIVE Total(_)
Total(its) == IF its = <<>> THEN 0 ELSE Count(Head(its)) + Total(Tail(its))

\* the number of jobs of the requests before request i
Offset(its, i) == Total(SubSeq(its, 1, i - 1))

\* an item expand must refuse
Offending(item) ==
    \/ item.type \notin {"Bolts", "Nuts", "Washers"}
    \/ item.type = "Bolts" /\ item.bolt_type \notin DOMAIN BOLT_TYPES

\* C1: when make returns, the renderer was started exactly once per job, in
\* the order of the jobs expand returned, each start after the exit of the
\* one before, every exit was a success, and the list returned is the list
\* of the jobs' output paths in that order; at every moment the renderer
\* runs started so far are the first jobs, in order, at most one unfinished.
C1_OneAtATimeInOrder ==
    /\ Len(exits) <= Len(calls)
    /\ Len(calls) <= Len(exits) + 1
    /\ Len(calls) <= Len(jobs)
    /\ \A i \in 1..Len(calls) :
          calls[i].label = jobs[i].label /\ calls[i].output = jobs[i].out
    /\ returned =>
          /\ Len(calls) = Len(jobs)
          /\ Len(exits) = Len(jobs)
          /\ \A i \in 1..Len(exits) : exits[i] = "ok"
          /\ Len(result) = Len(jobs)
          /\ \A i \in 1..Len(jobs) : result[i] = jobs[i].out

C1_Witness ==
    /\ returned
    /\ Len(jobs) = 3
    /\ jobs[1].out # jobs[2].out /\ jobs[2].out # jobs[3].out
    /\ Len(calls) = 3

\* C2: once a renderer run has failed, it is the last one started (no job
\* after it is ever invoked), make has raised CalledProcessError and
\* returned no list, and the output file of every job before it still exists.
C2_FailFast ==
    \A k \in 1..Len(exits) :
        exits[k] = "fail" =>
            /\ k = Len(exits)
            /\ Len(calls) = k
            /\ calls[k].output = jobs[k].out
            /\ pc = "raised"
            /\ error = "CalledProcessError"
            /\ ~returned /\ result = <<>>
            /\ \A j \in 1..(k - 1) : jobs[j].out \in files

C2_Witness ==
    /\ Len(exits) = 3
    /\ exits[3] = "fail"
    /\ Len(jobs) > 3
    /\ jobs[1].out \in files /\ jobs[2].out \in files

\* C3: if any item of the list is a Bolts request with an unknown bolt_type
\* (with or without lengths) or is no Bolts, Nuts or Washers, then make gets
\* no job from expand, never starts the renderer, creates no directory and
\* no file, returns nothing, and ends by raising expand's exception.
C3_ExpandRefusesBeforeAnyInvocation ==
    (\E i \in DOMAIN items : Offending(items[i])) =>
        /\ pc \in {"start", "raised"}
        /\ jobs = <<>>
        /\ calls = <<>> /\ exits = <<>>
        /\ dirs = {} /\ files = {}
        /\ ~returned /\ result = <<>>
        /\ pc = "raised" => error \in {"ValueError", "TypeError"}

C3_Witness ==
    /\ pc = "raised"
    /\ Len(items) = 2
    /\ ~Offending(items[1]) /\ Count(items[1]) > 0
    /\ items[2].type = "Bolts" /\ Offending(items[2]) /\ items[2].lengths = <<>>

\* the job the batch expander is to build from the j-th length or extra of
\* a valid request
ExpectedJob(item, j) ==
    IF item.type = "Bolts"
    THEN LET spec == BoltSpec(item.size, item.lengths[j],
                              BOLT_TYPES[item.bolt_type].head_style,
                              BOLT_TYPES[item.bolt_type].drive,
                              item.tapping, item.partial_thread,
                              item.grade_or_material)
         IN  Job(bolt_label(spec),
                 PathJoin(default_section_dir(out_dir, "bolt", item.size, FALSE),
                          bolt_filename(spec, ext)))
    ELSE IF item.type = "Nuts"
    THEN LET spec == NutSpec(item.size, item.extras[j])
         IN  Job(nut_label(spec),
                 PathJoin(default_section_dir(out_dir, "nut", item.size, FALSE),
                          nut_filename(spec, ext)))
    ELSE LET spec == WasherSpec(item.size, item.extras[j], item.lock)
         IN  Job(washer_label(spec),
                 PathJoin(default_section_dir(out_dir, "washer", item.size, item.lock),
                          washer_filename(spec, ext)))

\* the job of BoltSpec(size="M3", length="8", head_style="socket", drive="hex")
\* under the default out_dir and ext:
\* label {cullbolt(flipped,socket,hex)}{1|1}M3\n(U+00D7)8, path
\* labels_out/m3_bolts/m3x8_socket_hex.step
M3x8SocketHexJob ==
    [label |-> <<"{","c","u","l","l","b","o","l","t","(",
                 "f","l","i","p","p","e","d",",","s","o","c","k","e","t",",",
                 "h","e","x",")","}","{","1","|","1","}","M","3","\n","U+00D7","8">>,
     out |-> [root |-> "",
              parts |-> << <<"l","a","b","e","l","s","_","o","u","t">>,
                           <<"m","3","_","b","o","l","t","s">>,
                           <<"m","3","x","8","_","s","o","c","k","e","t","_",
                             "h","e","x",".","s","t","e","p">> >>]]

\* C4: for a list of valid requests, expand returns as many jobs as the
\* requests have lengths (Bolts) and extras (Nuts, Washers) in all; the jobs
\* of request i come after those of the requests before it, and its j-th job
\* is the one built from its j-th length or extra, a bolt job with the
\* head_style and drive the registry gives for the bolt_type.
C4_ExpandFanOut ==
    (pc \in {"loop", "invoking", "returned", "raised"}
        /\ \A i \in DOMAIN items : ~Offending(items[i])) =>
        /\ Len(jobs) = Total(items)
        /\ \A i \in DOMAIN items : \A j \in 1..Count(items[i]) :
              jobs[Offset(items, i) + j] = ExpectedJob(items[i], j)
        /\ \A i \in DOMAIN items :
              items[i] = Bolts("socket_hex", M3, << <<"8">>, <<"1","0">> >>,
                               FALSE, FALSE, None) =>
                  /\ jobs[Offset(items, i) + 1] = M3x8SocketHexJob
                  /\ jobs[Offset(items, i) + 2].label # M3x8SocketHexJob.label

C4_Witness ==
    /\ pc = "loop"
    /\ Len(items) = 2
    /\ items[1].type = "Bolts" /\ items[1].bolt_type = "socket_hex"
    /\ Len(items[1].lengths) = 2
    /\ items[2].type = "Washers"
    /\ Len(jobs) = 3
    /\ jobs[1] # jobs[2] /\ jobs[2] # jobs[3]

(***************************************************************************)
(* Properties of the sanitiser, the normaliser and the layout, stated for  *)
(* SpecPure.                                                               *)
(***************************************************************************)
\* C5: sanitising a sanitised string changes nothing
C5_SafeStemIdempotent == "stem2" \in ran => stem2 = stem

C5_Witness ==
    /\ "stem2" \in ran
    /\ Len(arg) = MaxStemLen
    /\ stem # arg /\ stem # LABEL
    /\ "_" \in Range(stem)

\* what the sanitiser promises of its result
CleanStem(t) ==
    /\ t # <<>>
    /\ \A i \in DOMAIN t : t[i] \in SafeChars
    /\ t[1] # "_" /\ t[Len(t)] # "_"
    /\ \A i \in 1..(Len(t) - 1) : ~(t[i] = "_" /\ t[i + 1] = "_")

\* nothing of s would remain: no letter, digit, '.', '-' or multiplication sign
NothingRemains(s) == \A i \in DOMAIN s : s[i] \notin (SafeChars \ {"_"}) \cup {MULT}

\* t ends with suffix
EndsWith(t, suffix) ==
    /\ Len(t) >= Len(suffix)
    /\ SubSeq(t, Len(t) - Len(suffix) + 1, Len(t)) = suffix

\* C6: the sanitiser's result is never empty, holds only letters, digits,
\* '.', '_' and '-', has no doubled, leading or trailing underscore, and is
\* "label" when nothing would remain ("" and "###" among them); so the stem
\* of every bolt, nut and washer filename (the name without its ext) is such
\* a string, whatever the extra or grade_or_material.
C6_CleanStem ==
    /\ "stem" \in ran =>
          /\ CleanStem(stem)
          /\ NothingRemains(arg) => stem = LABEL
          /\ arg \in {<<>>, <<"#","#","#">>} => stem = LABEL
    /\ "fname" \in ran =>
          /\ EndsWith(fname, fext)
          /\ CleanStem(SubSeq(fname, 1, Len(fname) - Len(fext)))

C6_Witness ==
    /\ kind = "stem"
    /\ arg = <<"#","#","#">>
    /\ "stem" \in ran
    /\ stem = LABEL

\* a <digits>/<digits> pair (whitespace allowed around the slash) of t whose
\* left run of digits starts at a and is not preceded by a digit, and whose
\* right run of digits is not followed by a digit
SlashPairAt(t, a) ==
    /\ t[a] \in Digits
    /\ a = 1 \/ t[a - 1] \notin Digits
    /\ \E sl \in (a + 1)..(Len(t) - 1) :
          /\ t[sl] = "/"
          /\ \E b \in a..(sl - 1) :
                /\ \A i \in a..b : t[i] \in Digits
                /\ \A i \in (b + 1)..(sl - 1) : t[i] \in Whitespace
          /\ \E c \in (sl + 1)..Len(t) :
                /\ \A i \in (sl + 1)..(c - 1) : t[i] \in Whitespace
                /\ t[c] \in Digits

\* C7, as claimed: the normaliser replaces every such pair, so none remains
\* in its result
C7_NoSlashPairRemains ==
    "norm" \in ran => \A a \in DOMAIN norm : ~SlashPairAt(norm, a)

\* the tokens of the bolt icon, in order
BoltTokens(b) ==
    <<FLIPPED>> \o (IF b.tapping THEN <<TAPPING>> ELSE <<>>)
                \o (IF b.partial_thread THEN <<PARTIAL>> ELSE <<>>)
                \o <<b.head_style, b.drive>>

\* C8, as claimed: the bolt label is the icon directive, {1|1}, the top line,
\* a newline and the multiplication sign with the normalised length, where
\* the top line is the normalised size followed, when there is a
\* grade_or_material, by a space and the normalised grade_or_material, each
\* field normalised on its own
C8_BoltLabelFieldsNormalizedSeparately ==
    (kind = "bolt" /\ "label" \in ran) =>
        label = CULLBOLT_OPEN \o Join(BoltTokens(arg), <<",">>) \o <<")", "}">>
                  \o ONE_ONE
                  \o normalize_label_text(arg.size)
                  \o (IF Truthy(arg.grade_or_material)
                      THEN <<" ">> \o normalize_label_text(arg.grade_or_material[1])
                      ELSE <<>>)
                  \o <<NEWLINE, MULT>> \o normalize_label_text(arg.length)

\* C9, as claimed: the bolt filename is the sanitised stem
\* {size}x{length}_{head_style}_{drive}[_tapping][_partial][_{grade}] plus
\* the ext, the size lowercased, without '#', '-' turned into '_', and the
\* length lowercased, '/' turned into '_', without inch quotes, '.' turned
\* into 'p'
C9_BoltFilenameLowercasesLength ==
    (kind = "bolt" /\ "fname" \in ran) =>
        fname = _safe_stem(
                    Replace(Replace(Lower(arg.size), "#", <<>>), "-", <<"_">>)
                    \o <<"x">>
                    \o Replace(Replace(Replace(Lower(arg.length), "/", <<"_">>),
                                       QUOTE, <<>>), ".", <<"p">>)
                    \o <<"_">> \o arg.head_style \o <<"_">> \o arg.drive
                    \o (IF arg.tapping THEN <<"_">> \o TAPPING ELSE <<>>)
                    \o (IF arg.partial_thread THEN <<"_">> \o PARTIAL ELSE <<>>)
                    \o (IF Truthy(arg.grade_or_material)
                        THEN <<"_">> \o Lower(arg.grade_or_material[1]) ELSE <<>>))
                \o fext

\* the number of characters c in t
RECURSIVE CountChar(_, _)
CountChar(t, c) ==
    IF t = <<>> THEN 0
    ELSE (IF Head(t) = c THEN 1 ELSE 0) + CountChar(Tail(t), c)

\* the stem the washer filename rule names, before it is sanitised
WasherStem(w, extra) ==
    Replace(Lower(w.size), "#", <<>>) \o <<"_">>
        \o (IF w.lock THEN LOCKWASHER ELSE WASHER)
        \o (IF w.extra # <<>> THEN <<"_">> \o extra ELSE <<>>)

\* the washer label, with the normalised extra
WasherLabelAsSpecified ==
    (kind = "washer" /\ "label" \in ran) =>
        label = LEFT_ALIGN \o (IF arg.lock THEN LOCKWASHER_ICON ELSE WASHER_ICON)
                  \o ONE_TWO \o normalize_label_text(arg.size) \o <<NEWLINE>>
                  \o normalize_label_text(arg.extra)

\* C10, as claimed: the washer filename is the sanitised
\* {size}_{lockwasher|washer}[_{extra}] plus the ext, built from the raw
\* extra with every '.' of it turned into 'p' (and every slash into an
\* underscore), while the label carries the normalised extra
C10_WasherFilenameDotsBecomeP ==
    /\ (kind = "washer" /\ "fname" \in ran) =>
          fname = _safe_stem(WasherStem(arg,
                      Replace(Replace(Lower(arg.extra), "/", <<"_">>), ".", <<"p">>)))
                  \o fext
    /\ WasherLabelAsSpecified

\* C10, amended: the washer filename is the sanitised
\* {size}_{lockwasher|washer}[_{extra}] plus the ext, built from the raw
\* lowercased extra: no slash and no fraction slash is left in it, and every
\* '.' of the size and the extra is kept as it is; the label carries the
\* normalised extra
C10_WasherFilenameFromRawExtra ==
    /\ (kind = "washer" /\ "fname" \in ran) =>
          LET st == SubSeq(fname, 1, Len(fname) - Len(fext))
          IN  /\ fname = _safe_stem(WasherStem(arg, Lower(arg.extra))) \o fext
              /\ CountChar(st, "/") = 0
              /\ CountChar(st, FRACTION_SLASH) = 0
              /\ CountChar(st, ".") = CountChar(arg.size, ".") + CountChar(arg.extra, ".")
    /\ WasherLabelAsSpecified

C10_Witness ==
    /\ kind = "washer"
    /\ {"label", "fname"} \subseteq ran
    /\ "." \in Range(arg.extra) /\ "/" \in Range(arg.extra)
    /\ normalize_label_text(arg.extra) # arg.extra
    /\ label # <<>> /\ fname # <<>>

=============================================================================
